---- MODULE Spec2Model ----
(***************************************************************************)
(* Model of src/osmium/file_processor.py (pyosmium):                       *)
(*   - FileProcessor: configuration calls and the single-pass / two-pass   *)
(*     iterator (__iter__);                                                *)
(*   - zip_processors: the k-way merge over sorted processors with the     *)
(*     _CompIter cursors.                                                  *)
(* SpecZip is the state machine of zip_processors, SpecFP the one of       *)
(* FileProcessor.                                                          *)
(***************************************************************************)
EXTENDS Integers, Sequences, FiniteSets, TLC

VARIABLES
    \* ---- zip_processors ----
    procs,      \* the input streams: procs[i] is the record sequence of stream i
    iters,      \* the _CompIter cursors: iters[i] = [current, comp, fetched]
    nextid,     \* the local variable nextid of zip_processors
    zpc,        \* position of the zip_processors generator
    out,        \* the generator objects yielded so far, with what the consumer read
    \* ---- FileProcessor ----
    file,       \* the records of the file (self._file)
    entities,   \* self._entities
    node_store, \* self._node_store
    area_handler, \* self._area_handler
    filters,    \* self._filters
    nmaps,      \* number of location maps created by osmium.index.create_map
    err,        \* exception raised by the last configuration call, or "none"
    pc,         \* position of the __iter__ generator
    handlers,   \* the local list handlers of __iter__
    pos,        \* records consumed from the primary reader self._reader
    rd,         \* state of the secondary reader rd
    rdPos,      \* records consumed from rd
    buffer,     \* content of buffer_it (the staging buffer)
    yielded,    \* records yielded to the caller so far
    seen,       \* seen[s]: the records each internal stage has been handed
    susp,       \* TRUE while the generator is suspended at a yield
    staged,     \* every area record the second-pass stage put into the buffer
    iterErr     \* exception that ended the iteration, or "none"

zvars == <<procs, iters, nextid, zpc, out>>
cvars == <<entities, node_store, area_handler, filters, nmaps, err>>
ivars == <<pc, handlers, pos, rd, rdPos, buffer, yielded, seen, susp, staged, iterErr>>
fvars == <<file, cvars, ivars>>
vars == <<zvars, fvars>>

(***************************************************************************)
(* Bounds of the model.                                                    *)
(***************************************************************************)
MaxStreams == 2     \* number of processors handed to zip_processors
MaxId == 2          \* object ids are 1..MaxId
MaxRecs == 3        \* total number of records over all streams
MaxFile == 2        \* number of records in the file of a FileProcessor
MaxFilters == 2     \* number of with_filter calls
MaxMaps == 2        \* number of location maps created by name

(***************************************************************************)
(* Records and composite keys.                                             *)
(***************************************************************************)
\* TID of zip_processors: the rank of each type_str().
TID == [t \in {"n", "w", "r", "a", "c"} |->
          CASE t = "n" -> 0 [] t = "w" -> 1 [] t = "r" -> 2 [] t = "a" -> 3 [] t = "c" -> 4]

\* Mutant of EndMarker: a marker of the rank of the last type.
EndMarkerLastRank == <<4, 0>>

\* The end-of-file marker of _CompIter.next.
EndMarker == <<100, 0>>

\* The value None of a cursor's comp field, and of nextid in the first round.
NoneKey == <<-1, 0>>

\* The value None in a tuple slot or in a cursor's current field.
NoneRec == [t |-> "None", id |-> 0, src |-> 0]

\* Python's order on 2-tuples of integers.
KeyLess(a, b) == a[1] < b[1] \/ (a[1] = b[1] /\ a[2] < b[2])

\* (TID[self.current.type_str()], self.current.id)
KeyOf(r) == <<TID[r.t], r.id>>

\* Python's min over a non-empty collection of keys.
MinKey(S) == CHOOSE k \in S : \A j \in S : ~KeyLess(j, k)

(***************************************************************************)
(* zip_processors                                                          *)
(***************************************************************************)
\* The types of the records in the modelled input streams.
ZipTypes == {"n", "w"}

ZipKeys == {<<t, i>> : t \in ZipTypes, i \in 1..MaxId}

\* <<type, id>> pairs of a set, as the sequence ascending by composite key.
RECURSIVE SortedSeq(_)
SortedSeq(S) ==
    IF S = {} THEN <<>>
    ELSE LET m == CHOOSE x \in S :
                    \A y \in S : ~KeyLess(<<TID[y[1]], y[2]>>, <<TID[x[1]], x[2]>>)
         IN <<m>> \o SortedSeq(S \ {m})

\* What a FileProcessor handed to zip_processors emits: its records, sorted.
StreamOf(S, i) ==
    LET q == SortedSeq(S)
    IN [k \in 1..Len(q) |-> [t |-> q[k][1], id |-> q[k][2], src |-> i]]

RECURSIVE SumCard(_, _)
SumCard(f, n) == IF n = 0 THEN 0 ELSE Cardinality(f[n]) + SumCard(f, n - 1)

\* _CompIter.__init__
NewCompIter == [current |-> NoneRec, comp |-> NoneKey, fetched |-> 0]

\* next(self.iter, None): the record the k-th call on a stream returns.
Fetch(s, k) == IF k <= Len(s) THEN s[k] ELSE NoneRec

\* Mutant of CompVal: the comparison with nextid is dropped.
CompValUnchecked(c, nid) == c.current

\* _CompIter.val
CompVal(c, nid) == IF c.comp = nid THEN c.current ELSE NoneRec

\* Mutant of CompNext: a cursor at the end-of-file marker asks its stream again.
CompNextRetry(c, s, nid) ==
    IF c.comp = nid \/ c.comp = EndMarker
    THEN LET r == Fetch(s, c.fetched + 1)
         IN [current |-> r,
             comp |-> IF r = NoneRec THEN EndMarker ELSE KeyOf(r),
             fetched |-> c.fetched + 1]
    ELSE c

\* Mutant of CompNext: the comparison with nextid is inverted.
CompNextInverted(c, s, nid) ==
    IF c.comp # nid
    THEN LET r == Fetch(s, c.fetched + 1)
         IN [current |-> r,
             comp |-> IF r = NoneRec THEN EndMarker ELSE KeyOf(r),
             fetched |-> c.fetched + 1]
    ELSE c

\* Mutant of CompNext: the cursor advances whether or not its key is nextid.
CompNextAlways(c, s, nid) ==
    LET r == Fetch(s, c.fetched + 1)
    IN [current |-> r,
        comp |-> IF r = NoneRec THEN EndMarker ELSE KeyOf(r),
        fetched |-> c.fetched + 1]

\* _CompIter.next: the cursor after the call (the call returns its comp).
CompNext(c, s, nid) ==
    IF c.comp = nid
    THEN LET r == Fetch(s, c.fetched + 1)
         IN [current |-> r,
             comp |-> IF r = NoneRec THEN EndMarker ELSE KeyOf(r),
             fetched |-> c.fetched + 1]
    ELSE c

NStreams == Len(procs)

\* The generator object (i.val(nextid) for i in iters) yielded at key k: nothing
\* of it is evaluated until the consumer reads it.
LazyTuple(k) == [key |-> k, read |-> FALSE, prompt |-> FALSE, vals |-> <<>>]

\* One round of zip_processors from cursors cs and nextid nid, up to the next
\* yield or the end: nextid = min(i.next(nid) for i in iters), then the loop test.
ZipRound(cs, nid) ==
    LET ns == [i \in 1..NStreams |-> CompNext(cs[i], procs[i], nid)]
    IN /\ iters' = ns
       /\ IF NStreams = 0
          THEN \* min() of an empty sequence raises ValueError
               /\ zpc' = "error"
               /\ UNCHANGED <<nextid, out>>
          ELSE LET m == MinKey({ns[i].comp : i \in 1..NStreams})
               IN /\ nextid' = m
                  /\ IF m[1] < 100
                     THEN /\ zpc' = "yielded"
                          /\ out' = Append(out, LazyTuple(m))
                     ELSE /\ zpc' = "done"
                          /\ UNCHANGED out

\* First next() on the generator: lines 153-158.
ZipStart ==
    /\ zpc = "new"
    /\ ZipRound([i \in 1..NStreams |-> NewCompIter], NoneKey)
    /\ UNCHANGED <<procs, fvars>>

\* A later next() on the generator: lines 160, 157-158.
ZipResume ==
    /\ zpc = "yielded"
    /\ ZipRound(iters, nextid)
    /\ UNCHANGED <<procs, fvars>>

\* The consumer reads the elements of the k-th yielded generator object.
ReadTuple(k) ==
    /\ k \in 1..Len(out)
    /\ ~out[k].read
    /\ out' = [out EXCEPT ![k] =
                 [key |-> out[k].key, read |-> TRUE,
                  prompt |-> (zpc = "yielded" /\ k = Len(out)),
                  vals |-> [i \in 1..NStreams |-> CompVal(iters[i], nextid)]]]
    /\ UNCHANGED <<procs, iters, nextid, zpc, fvars>>

ZipNext ==
    \/ ZipStart
    \/ ZipResume
    \/ \E k \in 1..Len(out) : ReadTuple(k)

(***************************************************************************)
(* FileProcessor: configuration                                            *)
(***************************************************************************)
\* osmium.osm.ALL, osmium.osm.NODE, osmium.osm.RELATION as sets of type_str().
ALL == {"n", "w", "r", "a", "c"}
NODE == {"n"}
RELATION == {"r"}

\* The entity masks a FileProcessor is constructed with.
Masks == {ALL, ALL \ NODE}

\* The types of the records in the modelled files.
FileTypes == {"n", "w", "r"}

\* The files: the k-th record of a file has id k.
Files ==
    UNION {{[k \in 1..n |-> [t |-> f[k], id |-> k, src |-> 0]] : f \in [1..n -> FileTypes]} :
           n \in 0..MaxFile}

\* The user filters: "noway" vetoes ways, "norel" relations, "noarea" areas;
\* "boom" raises on relations.
FilterIds == {"noway", "norel", "noarea", "boom"}

Vetoes(f, r) ==
    \/ f = "noway" /\ r.t = "w"
    \/ f = "norel" /\ r.t = "r"
    \/ f = "noarea" /\ r.t = "a"

Raises(f, r) == f = "boom" /\ r.t = "r"

\* Values of self._node_store.
NoStore == [kind |-> "None", strategy |-> "", serial |-> 0]
TableA == [kind |-> "table", strategy |-> "TableA", serial |-> 0]
CreatedMap(name, n) == [kind |-> "map", strategy |-> name, serial |-> n]

\* The names osmium.index.create_map knows.
MapNames == {"flex_mem", "sparse_mem_array"}

\* Arguments of with_locations: strings, a LocationTable, None, anything else.
StorageArgs ==
    {[kind |-> "str", v |-> "flex_mem"], [kind |-> "str", v |-> "sparse_mem_array"],
     [kind |-> "str", v |-> "nosuch"], [kind |-> "table", v |-> "TableA"],
     [kind |-> "None", v |-> ""], [kind |-> "other", v |-> "42"]}

\* The default of the storage parameter of with_locations.
DefaultStorage == [kind |-> "str", v |-> "flex_mem"]

\* osmium.index.create_map
CreateMap(name, n) ==
    IF name \in MapNames
    THEN [err |-> "none", store |-> CreatedMap(name, n + 1), nmaps |-> n + 1]
    ELSE [err |-> "map_factory_error", store |-> NoStore, nmaps |-> n]

\* Mutant of NodesRead: the mask is tested for being non-empty, not for nodes.
NodesReadAny(mask) == mask # {}

\* The check at the head of with_locations: nodes must be read from the file.
NodesRead(mask) == (mask \cap NODE) # {}

\* Mutant of WithLocationsBody: None is taken for "no change" and keeps the store.
WithLocationsBodyKeepOnNone(mask, st, n, storage) ==
    IF ~NodesRead(mask)
    THEN [err |-> "RuntimeError", store |-> st, nmaps |-> n]
    ELSE IF storage.kind = "str"
    THEN LET m == CreateMap(storage.v, n)
         IN IF m.err = "none" THEN m ELSE [err |-> m.err, store |-> st, nmaps |-> n]
    ELSE IF storage.kind = "None"
    THEN [err |-> "none", store |-> st, nmaps |-> n]
    ELSE IF storage.kind = "table"
    THEN [err |-> "none", store |-> TableA, nmaps |-> n]
    ELSE [err |-> "TypeError", store |-> st, nmaps |-> n]

\* Body of with_locations on store st with n maps created so far: the exception
\* raised ("none" on return), and the store and the map count afterwards.
WithLocationsBody(mask, st, n, storage) ==
    IF ~NodesRead(mask)
    THEN [err |-> "RuntimeError", store |-> st, nmaps |-> n]
    ELSE IF storage.kind = "str"
    THEN LET m == CreateMap(storage.v, n)
         IN IF m.err = "none" THEN m ELSE [err |-> m.err, store |-> st, nmaps |-> n]
    ELSE IF storage.kind = "None"
    THEN [err |-> "none", store |-> NoStore, nmaps |-> n]
    ELSE IF storage.kind = "table"
    THEN [err |-> "none", store |-> TableA, nmaps |-> n]
    ELSE [err |-> "TypeError", store |-> st, nmaps |-> n]

\* FileProcessor.with_locations
with_locations(storage) ==
    /\ pc = "new"
    /\ WithLocationsBody(entities, node_store, nmaps, storage).nmaps <= MaxMaps
    /\ LET res == WithLocationsBody(entities, node_store, nmaps, storage)
       IN /\ err' = res.err
          /\ node_store' = res.store
          /\ nmaps' = res.nmaps
    /\ UNCHANGED <<entities, area_handler, filters, file, ivars, zvars>>

\* Mutant of WithAreasBody: neither test is made; every call makes a new
\* AreaManager and calls with_locations().
WithAreasBodyAlways(mask, ah, st, n) ==
    LET res == WithLocationsBody(mask, st, n, DefaultStorage)
    IN [err |-> res.err, handler |-> "AreaManager", store |-> res.store, nmaps |-> res.nmaps]

\* Body of with_areas on area handler ah and store st with n maps created so
\* far: the exception raised ("none" on return), and the area handler, the
\* store and the map count afterwards.
WithAreasBody(mask, ah, st, n) ==
    IF ah = "None"
    THEN IF st = NoStore
         THEN LET res == WithLocationsBody(mask, st, n, DefaultStorage)
              IN [err |-> res.err, handler |-> "AreaManager",
                  store |-> res.store, nmaps |-> res.nmaps]
         ELSE [err |-> "none", handler |-> "AreaManager", store |-> st, nmaps |-> n]
    ELSE [err |-> "none", handler |-> ah, store |-> st, nmaps |-> n]

\* FileProcessor.with_areas
with_areas ==
    /\ pc = "new"
    /\ WithAreasBody(entities, area_handler, node_store, nmaps).nmaps <= MaxMaps
    /\ LET res == WithAreasBody(entities, area_handler, node_store, nmaps)
       IN /\ err' = res.err
          /\ area_handler' = res.handler
          /\ node_store' = res.store
          /\ nmaps' = res.nmaps
    /\ UNCHANGED <<entities, filters, file, ivars, zvars>>

\* FileProcessor.with_filter
with_filter(filt) ==
    /\ pc = "new"
    /\ Len(filters) < MaxFilters
    /\ filters' = Append(filters, filt)
    /\ err' = "none"
    /\ UNCHANGED <<entities, node_store, area_handler, nmaps, file, ivars, zvars>>

CfgNext ==
    \/ \E storage \in StorageArgs : with_locations(storage)
    \/ with_areas
    \/ \E filt \in FilterIds : with_filter(filt)

(***************************************************************************)
(* FileProcessor: iteration                                                *)
(***************************************************************************)
\* osmium.io.Reader(file, mask): the records of the file the reader emits.
ReaderRecords(f, mask) ==
    LET InMask(r) == r.t \in mask
    IN SelectSeq(f, InMask)

\* self._reader = osmium.io.Reader(self._file, entities)
PrimaryRecords == ReaderRecords(file, entities)

\* Mutant of SecondaryRecords: rd is opened with the mask of the processor.
SecondaryRecordsMasked == ReaderRecords(file, entities)

\* rd = osmium.io.Reader(self._file, osmium.osm.RELATION)
SecondaryRecords == ReaderRecords(file, RELATION)

\* What one stage does with a record: "pass" it on, "veto" it or "raise". The
\* internal stages (location handler, area handlers) never veto; the first-pass
\* intake raises when intakeRaises.
StageOutcome(stage, r, intakeRaises) ==
    IF stage \in FilterIds
    THEN IF Raises(stage, r) THEN "raise" ELSE IF Vetoes(stage, r) THEN "veto" ELSE "pass"
    ELSE IF stage = "intake" /\ intakeRaises THEN "raise" ELSE "pass"

\* osmium.apply / OsmFileIterator hand a record to the stages in order, until
\* one vetoes it or raises: the stages that got the record, and the outcome.
RECURSIVE RunChain(_, _, _)
RunChain(chain, r, intakeRaises) ==
    IF chain = <<>>
    THEN [got |-> <<>>, outcome |-> "accept"]
    ELSE LET o == StageOutcome(Head(chain), r, intakeRaises)
         IN IF o = "pass"
            THEN LET rest == RunChain(Tail(chain), r, intakeRaises)
                 IN [got |-> <<Head(chain)>> \o rest.got, outcome |-> rest.outcome]
            ELSE [got |-> <<Head(chain)>>, outcome |-> o]

\* Mutant of PrimaryChain: the filters are placed before the handlers.
PrimaryChainFiltersFirst(hs, fs) == fs \o hs

\* Mutant of PrimaryChain: the filters are applied last registered first.
PrimaryChainReversed(hs, fs) == hs \o [k \in 1..Len(fs) |-> fs[Len(fs) + 1 - k]]

\* The stages of the primary pass: OsmFileIterator(self._reader, *handlers, *self._filters)
PrimaryChain(hs, fs) == hs \o fs

\* The stages of pass one: osmium.apply(rd, *self._filters, first_pass_handler())
FirstPassChain(fs) == fs \o <<"intake">>

\* The stages of the staging buffer: osmium.BufferIterator(*self._filters)
BufferChain(fs) == fs

\* The record logs after the stages in got were handed record r.
Logged(got, r) ==
    [s \in DOMAIN seen |->
        IF \E k \in 1..Len(got) : got[k] = s THEN Append(seen[s], r) ELSE seen[s]]

\* Area ids as osmium assigns them: 2*id for a way, 2*id+1 for a relation.
AreaOf(r) == [t |-> "a", id |-> 2 * r.id + (IF r.t = "r" THEN 1 ELSE 0), src |-> 0]

\* The area record that is finished only when the primary stream ends.
LateArea == [t |-> "a", id |-> 1, src |-> 0]

\* second_pass_to_buffer: the area records the stage may put into the buffer
\* when it is handed record r: none, or the area of a way or relation.
Assembled(r) == IF r.t \in {"w", "r"} THEN {<<>>, <<AreaOf(r)>>} ELSE {<<>>}

\* The area records the stage may put into the buffer at the end of the stream.
Flushed == {<<>>, <<LateArea>>}

\* Mutant of RdAfterError: rd.close() is not in a finally clause.
RdAfterErrorLeaked == "open"

\* rd after an exception in pass one: the finally clause closes it.
RdAfterError == "closed"

\* Mutant of PcAfterError: the exception is swallowed and pass one goes on.
PcAfterErrorSwallowed == "pass1"

\* The generator after an exception in pass one: the exception propagates.
PcAfterError == "error"

\* Mutant of PcAfterYield: the loop goes on without the drain of lines 108-109.
PcAfterYieldNoDrain == "pass2"

\* The generator after the yield of line 107: the drain of lines 108-109.
PcAfterYield == "drain"

\* Mutant of PcAfterPrimary: the generator ends without the drain of lines 112-113.
PcAfterPrimaryNoDrain == "done"

\* The generator after the loop of line 106: the last drain, lines 112-113.
PcAfterPrimary == "final"

\* First next(): lines 85-97, up to the choice of single-pass or two-pass.
IterStart ==
    /\ pc = "new"
    /\ handlers' = IF node_store # NoStore THEN <<"lh">> ELSE <<>>
    /\ IF area_handler = "None"
       THEN pc' = "single" /\ UNCHANGED rd
       ELSE pc' = "pass1" /\ rd' = "open"
    /\ err' = "none"
    /\ susp' = FALSE
    /\ UNCHANGED <<entities, node_store, area_handler, filters, nmaps, file,
                   pos, rdPos, buffer, yielded, seen, staged, iterErr, zvars>>

\* Single-pass mode, line 93: OsmFileIterator takes one record from the reader.
SingleStep ==
    /\ pc = "single"
    /\ pos < Len(PrimaryRecords)
    /\ LET r == PrimaryRecords[pos + 1]
           res == RunChain(PrimaryChain(handlers, filters), r, FALSE)
       IN /\ pos' = pos + 1
          /\ seen' = Logged(res.got, r)
          /\ yielded' = IF res.outcome = "accept" THEN Append(yielded, r) ELSE yielded
          /\ susp' = (res.outcome = "accept")
          /\ pc' = IF res.outcome = "raise" THEN "error" ELSE pc
          /\ iterErr' = IF res.outcome = "raise" THEN "single" ELSE iterErr
    /\ UNCHANGED <<cvars, file, handlers, rd, rdPos, buffer, staged, zvars>>

\* Single-pass mode, lines 93-94: the reader is exhausted.
SingleEnd ==
    /\ pc = "single"
    /\ pos = Len(PrimaryRecords)
    /\ pc' = "done"
    /\ susp' = FALSE
    /\ UNCHANGED <<cvars, file, handlers, pos, rd, rdPos, buffer, yielded, seen, staged,
                   iterErr, zvars>>

\* Pass one, line 99: osmium.apply takes one record from rd.
FirstPassStep ==
    /\ pc = "pass1"
    /\ rdPos < Len(SecondaryRecords)
    /\ \E intakeRaises \in BOOLEAN :
         LET r == SecondaryRecords[rdPos + 1]
             res == RunChain(FirstPassChain(filters), r, intakeRaises)
         IN /\ rdPos' = rdPos + 1
            /\ seen' = Logged(res.got \o <<"rd">>, r)
            /\ IF res.outcome = "raise"
               THEN /\ rd' = RdAfterError
                    /\ pc' = PcAfterError
                    /\ iterErr' = "pass1"
               ELSE UNCHANGED <<rd, pc, iterErr>>
    /\ UNCHANGED <<cvars, file, handlers, pos, buffer, yielded, susp, staged, zvars>>

\* Lines 100-104: rd is exhausted and closed, the staging buffer is created and
\* the second-pass stage joins the handlers.
FirstPassEnd ==
    /\ pc = "pass1"
    /\ rdPos = Len(SecondaryRecords)
    /\ rd' = "closed"
    /\ buffer' = <<>>
    /\ handlers' = Append(handlers, "area2")
    /\ pc' = "pass2"
    /\ UNCHANGED <<cvars, file, pos, rdPos, yielded, seen, susp, staged, iterErr, zvars>>

\* Pass two, lines 106-107: OsmFileIterator takes one record from the reader;
\* the second-pass stage may put an area record into the buffer.
SecondPassStep ==
    /\ pc = "pass2"
    /\ pos < Len(PrimaryRecords)
    /\ LET r == PrimaryRecords[pos + 1]
           res == RunChain(PrimaryChain(handlers, filters), r, FALSE)
           toArea == \E k \in 1..Len(res.got) : res.got[k] = "area2"
       IN \E as \in (IF toArea THEN Assembled(r) ELSE {<<>>}) :
            /\ pos' = pos + 1
            /\ seen' = Logged(res.got, r)
            /\ buffer' = buffer \o as
            /\ staged' = staged \o as
            /\ yielded' = IF res.outcome = "accept" THEN Append(yielded, r) ELSE yielded
            /\ susp' = (res.outcome = "accept")
            /\ pc' = CASE res.outcome = "raise" -> "error"
                       [] res.outcome = "accept" -> PcAfterYield
                       [] OTHER -> "pass2"
            /\ iterErr' = IF res.outcome = "raise" THEN "pass2" ELSE iterErr
    /\ UNCHANGED <<cvars, file, handlers, rd, rdPos, zvars>>

\* Pass two, line 106: the reader is exhausted; OsmFileIterator flushes the
\* handlers, which may put a last area record into the buffer.
SecondPassEnd ==
    /\ pc = "pass2"
    /\ pos = Len(PrimaryRecords)
    /\ \E as \in Flushed :
         /\ buffer' = buffer \o as
         /\ staged' = staged \o as
    /\ pc' = PcAfterPrimary
    /\ susp' = FALSE
    /\ UNCHANGED <<cvars, file, handlers, pos, rd, rdPos, yielded, seen, iterErr, zvars>>

\* Lines 108-109 and 112-113: yield from buffer_it takes one area record out
\* of the buffer and hands it to the filters.
DrainStep ==
    /\ pc \in {"drain", "final"}
    /\ buffer # <<>>
    /\ LET a == Head(buffer)
           res == RunChain(BufferChain(filters), a, FALSE)
       IN /\ buffer' = Tail(buffer)
          /\ yielded' = IF res.outcome = "accept" THEN Append(yielded, a) ELSE yielded
          /\ susp' = (res.outcome = "accept")
          /\ pc' = IF res.outcome = "raise" THEN "error" ELSE pc
          /\ iterErr' = IF res.outcome = "raise" THEN pc ELSE iterErr
    /\ UNCHANGED <<cvars, file, handlers, pos, rd, rdPos, seen, staged, zvars>>

\* Lines 108 and 112: the buffer is empty; the loop goes on, or the generator ends.
DrainEnd ==
    /\ pc \in {"drain", "final"}
    /\ buffer = <<>>
    /\ pc' = IF pc = "drain" THEN "pass2" ELSE "done"
    /\ susp' = FALSE
    /\ UNCHANGED <<cvars, file, handlers, pos, rd, rdPos, buffer, yielded, seen, staged,
                   iterErr, zvars>>

\* The caller stops consuming: the generator is closed where it is suspended
\* (or before it ever ran).
Abandon ==
    /\ susp \/ pc = "new"
    /\ pc \notin {"done", "error", "closed"}
    /\ pc' = "closed"
    /\ susp' = FALSE
    /\ UNCHANGED <<cvars, file, handlers, pos, rd, rdPos, buffer, yielded, seen, staged,
                   iterErr, zvars>>

IterNext ==
    \/ IterStart
    \/ SingleStep
    \/ SingleEnd
    \/ FirstPassStep
    \/ FirstPassEnd
    \/ SecondPassStep
    \/ SecondPassEnd
    \/ DrainStep
    \/ DrainEnd
    \/ Abandon

(***************************************************************************)
(* Specifications                                                          *)
(***************************************************************************)
\* A FileProcessor right after __init__ with mask m, on file f.
Constructed(m, f) ==
    /\ file = f
    /\ entities = m
    /\ node_store = NoStore
    /\ area_handler = "None"
    /\ filters = <<>>
    /\ nmaps = 0
    /\ err = "none"

\* No iteration of the FileProcessor has begun.
NotIterated ==
    /\ pc = "new"
    /\ handlers = <<>>
    /\ pos = 0
    /\ rd = "unopened"
    /\ rdPos = 0
    /\ buffer = <<>>
    /\ yielded = <<>>
    /\ seen = [s \in {"lh", "area2", "intake", "rd"} |-> <<>>]
    /\ susp = FALSE
    /\ staged = <<>>
    /\ iterErr = "none"

\* zip_processors is not in use.
NoZip ==
    /\ procs = <<>>
    /\ iters = <<>>
    /\ nextid = NoneKey
    /\ zpc = "off"
    /\ out = <<>>

\* zip_processors(*procs) has been called on sorted streams; nothing has run yet.
ZipInit ==
    /\ \E n \in 0..MaxStreams :
         \E f \in [1..n -> SUBSET ZipKeys] :
            /\ SumCard(f, n) <= MaxRecs
            /\ procs = [i \in 1..n |-> StreamOf(f[i], i)]
    /\ iters = <<>>
    /\ nextid = NoneKey
    /\ zpc = "new"
    /\ out = <<>>
    /\ Constructed(ALL, <<>>)
    /\ NotIterated

SpecZip == ZipInit /\ [][ZipNext]_vars

\* A FileProcessor after construction; the configuration calls follow.
CfgInit ==
    /\ \E m \in Masks : Constructed(m, <<>>)
    /\ NotIterated
    /\ NoZip

SpecCfg == CfgInit /\ [][CfgNext]_vars

FilterLists == UNION {[1..n -> FilterIds] : n \in 0..MaxFilters}

\* A configured FileProcessor on a file, before its iteration begins.
IterInit ==
    /\ file \in Files
    /\ entities \in Masks
    /\ node_store \in (IF NodesRead(entities) THEN {NoStore, TableA} ELSE {NoStore})
    /\ area_handler \in {"None", "AreaManager"}
    /\ filters \in FilterLists
    /\ nmaps = 0
    /\ err = "none"
    /\ NotIterated
    /\ NoZip

SpecFP == IterInit /\ [][IterNext]_vars

SpecZipFair == ZipInit /\ [][ZipNext]_vars /\ WF_vars(ZipStart) /\ WF_vars(ZipResume)

(***************************************************************************)
(* Properties of zip_processors                                            *)
(***************************************************************************)
\* The composite keys of the records of stream i, and of all streams.
KeysOfStream(i) == {KeyOf(procs[i][j]) : j \in 1..Len(procs[i])}
AllKeys == UNION {KeysOfStream(i) : i \in 1..NStreams}

\* What slot i of the tuple for key k has to hold.
Expected(i, k) ==
    IF k \in KeysOfStream(i)
    THEN procs[i][CHOOSE j \in 1..Len(procs[i]) : KeyOf(procs[i][j]) = k]
    ELSE NoneRec

YieldedKeys == {out[k].key : k \in 1..Len(out)}

\* C1: over N >= 1 streams ascending by composite key, every tuple is yielded
\* for a key of some stream, no key gets two tuples, a tuple read when it is
\* yielded holds in slot i stream i's record with that key, or None if stream i
\* has none, and once zip_processors is exhausted every key has had its tuple.
C1_MergeExact ==
    NStreams >= 1 =>
        /\ YieldedKeys \subseteq AllKeys
        /\ \A k1, k2 \in 1..Len(out) : out[k1].key = out[k2].key => k1 = k2
        /\ \A k \in 1..Len(out) :
              out[k].prompt =>
                  /\ Len(out[k].vals) = NStreams
                  /\ \A i \in 1..NStreams : out[k].vals[i] = Expected(i, out[k].key)
        /\ zpc = "done" => YieldedKeys = AllKeys

\* C1 witness: two streams are exhausted; one tuple held a record of each
\* stream, another held None for the first stream.
C1_Witness ==
    /\ NStreams = 2
    /\ zpc = "done"
    /\ \E k \in 1..Len(out) :
          out[k].prompt /\ out[k].vals[1] # NoneRec /\ out[k].vals[2] # NoneRec
    /\ \E k \in 1..Len(out) :
          out[k].prompt /\ out[k].vals[1] = NoneRec /\ out[k].vals[2] # NoneRec

\* C2: zip_processors over N >= 1 sorted streams, consumed, terminates, and when
\* it has terminated it has yielded as many tuples as there are distinct keys.
C2_Terminates ==
    /\ [](zpc = "done" => Len(out) = Cardinality(AllKeys))
    /\ (NStreams >= 1 => <>(zpc = "done"))

\* C2 witness: two streams with three distinct keys are exhausted.
C2_Witness ==
    /\ NStreams = 2
    /\ zpc = "done"
    /\ Cardinality(AllKeys) = 3
    /\ Len(out) = 3

\* C3 (as claimed): with zero streams the first next() ends the generator
\* normally with no tuple.
C3_EmptyEndsNormally ==
    (NStreams = 0 /\ zpc # "new") => (zpc = "done" /\ out = <<>>)

(***************************************************************************)
(* Properties of FileProcessor                                             *)
(***************************************************************************)
\* What the filters fs, asked in registration order, decide about record r:
\* the first filter that vetoes or raises settles it.
Decides(f, r) == Vetoes(f, r) \/ Raises(f, r)
Verdict(fs, r) ==
    IF \E i \in 1..Len(fs) : Decides(fs[i], r)
    THEN LET i == CHOOSE i \in 1..Len(fs) :
                     Decides(fs[i], r) /\ \A j \in 1..(i - 1) : ~Decides(fs[j], r)
         IN IF Raises(fs[i], r) THEN "raise" ELSE "veto"
    ELSE "accept"

InSeq(r, q) == \E k \in 1..Len(q) : q[k] = r
TwoPass == area_handler # "None"

\* The records taken from the primary reader and from rd so far.
PrimaryRead == SubSeq(PrimaryRecords, 1, pos)
SecondaryRead == SubSeq(SecondaryRecords, 1, rdPos)

\* What C4 says of the primary pass: a vetoed record is not yielded, and the
\* node-location stage and the second-pass stage, where installed, were handed it.
VetoedSeenInPrimary ==
    \A k \in 1..pos :
        LET r == PrimaryRecords[k]
        IN Verdict(filters, r) = "veto" =>
              /\ ~InSeq(r, yielded)
              /\ InSeq("lh", handlers) => InSeq(r, seen["lh"])
              /\ InSeq("area2", handlers) => InSeq(r, seen["area2"])

\* C4 (as claimed): a vetoed record is never yielded but every internal stage
\* is handed it: the node-location stage, the second-pass stage and, for a
\* relation in pass one, the first-pass intake.
C4_VetoedSeenEverywhere ==
    /\ VetoedSeenInPrimary
    /\ \A k \in 1..rdPos :
          Verdict(filters, SecondaryRecords[k]) = "veto" =>
              InSeq(SecondaryRecords[k], seen["intake"])

\* C4 (amended): a vetoed record is never yielded; in the primary pass the
\* node-location stage and the second-pass stage are handed it all the same;
\* in pass one the filters come first, and the first-pass intake is handed
\* exactly the relations the filters let through.
C4_VetoedSeenInPrimaryOnly ==
    /\ VetoedSeenInPrimary
    /\ \A k \in 1..rdPos :
          LET r == SecondaryRecords[k]
          IN /\ Verdict(filters, r) = "veto" => ~InSeq(r, seen["intake"])
             /\ Verdict(filters, r) = "accept" => InSeq(r, seen["intake"])
    /\ pc = "pass1" => yielded = <<>>

\* C4 witness: a two-pass run with a location cache has ended; a vetoed way
\* went to both primary stages, a vetoed relation did not go to the intake.
C4_Witness ==
    /\ TwoPass
    /\ pc = "done"
    /\ \E k \in 1..pos :
          /\ PrimaryRecords[k].t = "w"
          /\ Verdict(filters, PrimaryRecords[k]) = "veto"
          /\ InSeq(PrimaryRecords[k], seen["lh"])
          /\ InSeq(PrimaryRecords[k], seen["area2"])
    /\ \E k \in 1..rdPos :
          /\ Verdict(filters, SecondaryRecords[k]) = "veto"
          /\ ~InSeq(SecondaryRecords[k], seen["intake"])

\* C5: in two-pass mode nothing is yielded and nothing is taken from the primary
\* reader before rd has been read to its end and closed; pass one yields nothing
\* and rd emits relations only.
C5_PassOneBarrier ==
    TwoPass =>
        /\ (yielded # <<>> \/ pos > 0) =>
               (rd = "closed" /\ rdPos = Len(ReaderRecords(file, RELATION)))
        /\ pc = "pass1" => (yielded = <<>> /\ pos = 0)
        /\ \A k \in 1..Len(seen["rd"]) : seen["rd"][k].t = "r"
        /\ Len(seen["rd"]) = rdPos

\* C5 witness: pass two has yielded a way after pass one took a relation from rd.
C5_Witness ==
    /\ TwoPass
    /\ rdPos >= 1
    /\ \E k \in 1..Len(yielded) : yielded[k].t = "w"

\* C6: rd is open only while pass one runs: after normal completion, after an
\* exception in pass one and after the caller has abandoned the iteration it is
\* closed (or was never opened).
C6_SecondaryClosed ==
    /\ rd = "open" => pc = "pass1"
    /\ pc \in {"pass2", "drain", "final"} => rd = "closed"
    /\ iterErr = "pass1" => rd = "closed"
    /\ (TwoPass /\ pc \in {"done", "error"}) => rd = "closed"
    /\ (TwoPass /\ pc = "closed") => rd \in {"closed", "unopened"}
    /\ (rd = "unopened" /\ TwoPass) => pc \in {"new", "closed"}

\* C6 witness: the first-pass intake raised on the second relation of rd, which
\* no filter vetoes or raises on, and rd is closed.
C6_Witness ==
    /\ iterErr = "pass1"
    /\ rdPos = 2
    /\ Verdict(filters, SecondaryRecords[2]) = "accept"
    /\ rd = "closed"

\* C7: an exception in pass one ends the generator with that exception: no
\* record is taken from the primary reader, the second-pass stage is not
\* installed and nothing is yielded.
C7_NoPassTwoAfterError ==
    iterErr = "pass1" =>
        /\ pc = "error"
        /\ pos = 0
        /\ ~InSeq("area2", handlers)
        /\ yielded = <<>>
        /\ buffer = <<>>

\* C7 witness: a filter raised in pass one of a run whose primary reader has
\* records to emit.
C7_Witness ==
    /\ iterErr = "pass1"
    /\ Verdict(filters, SecondaryRecords[rdPos]) = "raise"
    /\ Len(PrimaryRecords) >= 2

\* The area records among q, and those of q the filters accept.
AreasOf(q) == LET IsArea(r) == r.t = "a" IN SelectSeq(q, IsArea)
Accepted(q) == LET Ok(r) == Verdict(filters, r) = "accept" IN SelectSeq(q, Ok)

\* C8: when a two-pass iteration is exhausted the staging buffer is empty and
\* the area records yielded are exactly the staged ones the filters accept, each
\* once, in staging order, the one staged at the end of the stream included.
C8_StagedAllYielded ==
    (TwoPass /\ pc = "done") =>
        /\ buffer = <<>>
        /\ AreasOf(yielded) = Accepted(staged)

\* C8 witness: an exhausted two-pass run yielded an area staged during the loop
\* and the area staged at the end of the stream.
C8_Witness ==
    /\ TwoPass
    /\ pc = "done"
    /\ InSeq(LateArea, yielded)
    /\ Len(AreasOf(yielded)) >= 2
    /\ staged # <<>>

\* C9: with_locations on a mask without nodes raises RuntimeError whatever the
\* storage argument, leaves the store as it is and reads no record; so a
\* configured location cache implies that nodes are in the mask.
C9_LocationsNeedNodes ==
    /\ [](node_store # NoStore => "n" \in entities)
    /\ [][\A storage \in StorageArgs :
              (with_locations(storage) /\ "n" \notin entities) =>
                  /\ err' = "RuntimeError"
                  /\ node_store' = node_store
                  /\ nmaps' = nmaps
                  /\ pos' = 0 /\ rdPos' = 0]_vars

\* C9 witness: with_locations has raised RuntimeError on a mask without nodes
\* (with_areas, the other caller, was never called).
C9_Witness ==
    /\ "n" \notin entities
    /\ err = "RuntimeError"
    /\ area_handler = "None"
    /\ node_store = NoStore

\* C10: in single-pass mode the records yielded are those of the reader's
\* emission the filters accept, in emission order; a filter raises exactly when
\* it is the first in registration order to decide a record, by raising; with no
\* filter and no cache the output is the emission; with the way filter alone no
\* way and every node is yielded.
C10_SinglePassOutput ==
    ~TwoPass =>
        /\ yielded = Accepted(PrimaryRead)
        /\ (iterErr # "none") <=>
               (pos >= 1 /\ Verdict(filters, PrimaryRecords[pos]) = "raise")
        /\ \A k \in 1..(pos - 1) : Verdict(filters, PrimaryRecords[k]) # "raise"
        /\ pc = "done" => pos = Len(PrimaryRecords)
        /\ (pc = "done" /\ filters = <<>> /\ node_store = NoStore) =>
               yielded = ReaderRecords(file, entities)
        /\ (pc = "done" /\ filters = <<"noway">>) =>
               /\ \A k \in 1..Len(yielded) : yielded[k].t # "w"
               /\ \A k \in 1..Len(file) :
                     (file[k].t = "n" /\ "n" \in entities) => InSeq(file[k], yielded)

\* C10 witness: an exhausted single-pass run with the way filter alone took a
\* way from the reader and yielded a node.
C10_Witness ==
    /\ ~TwoPass
    /\ pc = "done"
    /\ filters = <<"noway">>
    /\ \E k \in 1..pos : PrimaryRecords[k].t = "w"
    /\ \E k \in 1..Len(yielded) : yielded[k].t = "n"

(***************************************************************************)
(* Properties of the configuration calls                                   *)
(***************************************************************************)
\* C11 (as claimed): every with_areas call that finds no location cache and
\* returns normally leaves a location cache of the default strategy.
C11_AreasAlwaysEnableCache ==
    [][(with_areas /\ node_store = NoStore /\ err' = "none") =>
          (node_store'.kind = "map" /\ node_store'.strategy = DefaultStorage.v)]_vars

\* C12: with_areas is idempotent: in the configuration a with_areas call leaves,
\* a second with_areas call changes neither the area handler nor the location
\* cache (nor the mask or the filters, which with_areas never touches).
C12_AreasIdempotent ==
    [][with_areas =>
          LET again == WithAreasBody(entities', area_handler', node_store', nmaps')
          IN /\ again.handler = area_handler'
             /\ again.store = node_store'
             /\ again.nmaps = nmaps'
             /\ entities' = entities
             /\ filters' = filters]_vars

\* C12 witness: with_areas has made the area handler and the default cache.
C12_Witness ==
    /\ area_handler = "AreaManager"
    /\ node_store = CreatedMap("flex_mem", 1)
    /\ err = "none"

\* C16: a successful with_locations leaves the cache its argument names: a name
\* a map of that strategy never seen before, a table that table, None no cache;
\* a second call with the same table or with None changes nothing; with_areas
\* keeps a cache that is configured, and with_filter any.
C16_LastLocationsWins ==
    /\ [](node_store.serial <= nmaps)
    /\ [][\A storage \in StorageArgs :
              (with_locations(storage) /\ err' = "none") =>
                  /\ storage.kind = "str" =>
                        /\ node_store' = CreatedMap(storage.v, nmaps + 1)
                        /\ nmaps' = nmaps + 1
                  /\ storage.kind = "table" => node_store' = TableA
                  /\ storage.kind = "None" => node_store' = NoStore
                  /\ storage.kind \in {"table", "None"} =>
                        WithLocationsBody(entities', node_store', nmaps', storage).store
                            = node_store']_vars
    /\ [][(with_areas /\ node_store # NoStore) => node_store' = node_store]_vars
    /\ [][(\E filt \in FilterIds : with_filter(filt)) => node_store' = node_store]_vars

\* C16 witness: with_locations(None) has cleared a cache made by name, after
\* with_areas.
C16_Witness ==
    /\ node_store = NoStore
    /\ nmaps = 2
    /\ area_handler = "AreaManager"
    /\ err = "none"

\* C18 (as claimed): a configuration call that raises leaves the location
\* cache, the area handler and the filters as they were.
C18_RaiseKeepsConfig ==
    [][err' # "none" => UNCHANGED <<node_store, area_handler, filters>>]_vars

(***************************************************************************)
(* Properties of the merge cursors                                         *)
(***************************************************************************)
\* C13: in a merge step exactly the cursors whose key is the minimum just
\* yielded take one record from their stream; every other cursor keeps its
\* record and key and takes nothing.
C13_OnlyMinimumAdvances ==
    [][ZipResume =>
          \A i \in 1..NStreams :
              IF iters[i].comp = nextid
              THEN /\ iters'[i].fetched = iters[i].fetched + 1
                   /\ iters'[i].current = Fetch(procs[i], iters[i].fetched + 1)
              ELSE iters'[i] = iters[i]]_vars

\* C13 witness: after two steps the first cursor has taken three records and
\* the second still holds its first.
C13_Witness ==
    /\ NStreams = 2
    /\ zpc = "yielded"
    /\ iters[1].fetched = 3
    /\ iters[2].fetched = 1
    /\ iters[2].current # NoneRec

\* Stream i has reported its end to its cursor.
Exhausted(i) == iters[i].fetched > Len(procs[i])

\* C14: once the cursors exist, a cursor's key is the end marker exactly when
\* its stream is exhausted; the end marker is greater than the key of any record
\* of ranks 0..4; zip_processors has stopped exactly when every cursor is at the
\* end marker, and then every record of every stream has been fetched and its
\* key yielded.
C14_SentinelMeansExhausted ==
    /\ \A t \in DOMAIN TID : \A id \in 0..MaxId : KeyLess(<<TID[t], id>>, EndMarker)
    /\ (NStreams >= 1 /\ zpc \in {"yielded", "done"}) =>
          /\ \A i \in 1..NStreams : (iters[i].comp = EndMarker) <=> Exhausted(i)
          /\ \A i \in 1..NStreams : ~Exhausted(i) => KeyLess(iters[i].comp, EndMarker)
          /\ (zpc = "done") <=> (\A i \in 1..NStreams : iters[i].comp = EndMarker)
          /\ (zpc = "done") <=> (nextid = EndMarker)
          /\ zpc = "done" => YieldedKeys = AllKeys

\* C14 witness: the first stream is exhausted, the second has records that
\* have not been fetched yet, and zip_processors has not stopped.
C14_Witness ==
    /\ NStreams = 2
    /\ zpc = "yielded"
    /\ Len(procs[1]) >= 1
    /\ iters[1].comp = EndMarker
    /\ iters[2].comp # EndMarker
    /\ iters[2].fetched < Len(procs[2])

\* C17 (as claimed): whenever the consumer reads a yielded tuple, its elements
\* are those of the merge step that yielded it.
C17_ReadAnyTime ==
    \A k \in 1..Len(out) :
        out[k].read => \A i \in 1..NStreams : out[k].vals[i] = Expected(i, out[k].key)

\* C19: the keys of the tuples are strictly increasing, and every tuple, as it
\* is yielded, holds a record in at least one slot.
C19_KeysIncrease ==
    NStreams >= 1 =>
        /\ \A k \in 1..(Len(out) - 1) : KeyLess(out[k].key, out[k + 1].key)
        /\ zpc = "yielded" =>
              /\ out[Len(out)].key = nextid
              /\ \E i \in 1..NStreams : CompVal(iters[i], nextid) # NoneRec
        /\ \A k \in 1..Len(out) :
              out[k].prompt => \E i \in 1..NStreams : out[k].vals[i] # NoneRec

\* C19 witness: three tuples were yielded, over a node key and a way key.
C19_Witness ==
    /\ Len(out) = 3
    /\ out[1].key[1] = 0
    /\ out[3].key[1] = 1
    /\ out[3].prompt

\* C20: no stream is asked for a record after it has reported its end: a
\* cursor makes at most one call beyond the records of its stream.
C20_NoFetchAfterEnd ==
    \A i \in 1..Len(iters) : iters[i].fetched <= Len(procs[i]) + 1

\* C20 witness: the first stream, empty, reported its end in the first round,
\* and two more rounds followed on the second stream.
C20_Witness ==
    /\ NStreams = 2
    /\ Len(procs[1]) = 0
    /\ iters # <<>>
    /\ iters[1].fetched = 1
    /\ iters[2].fetched = 3

(***************************************************************************)
(* Order of the area records in the output                                 *)
(***************************************************************************)
\* The place of record r in q.
IndexOf(r, q) == CHOOSE k \in 1..Len(q) : q[k] = r

\* The id of the primary record during whose processing area a was staged
\* (AreaOf); the area staged at the end of the stream comes after all of them.
StagedAt(a) == IF a = LateArea THEN MaxFile + 2 ELSE a.id \div 2

\* Area a was in the staging buffer when primary record x had been yielded, and
\* primary record y was yielded later.
DueBefore(a, x, y) ==
    /\ InSeq(a, staged) /\ a # LateArea
    /\ InSeq(x, yielded) /\ x.t # "a"
    /\ InSeq(y, yielded) /\ y.t # "a"
    /\ StagedAt(a) <= x.id
    /\ x.id < y.id
    /\ \A z \in {yielded[k] : k \in 1..Len(yielded)} :
          (z.t # "a" /\ z.id < x.id) => z.id < StagedAt(a)

\* An area record is not yielded before the primary record during whose
\* processing it was staged.
AreasAfterTheirRecord ==
    \A k \in 1..Len(yielded) :
        yielded[k].t = "a" =>
            \A j \in 1..Len(yielded) :
                (yielded[j].t # "a" /\ yielded[j].id <= StagedAt(yielded[k])) => j < k

Records == {yielded[k] : k \in 1..Len(yielded)} \cup {staged[k] : k \in 1..Len(staged)}

\* C15 (as claimed): every area record in the staging buffer when a primary
\* record has been yielded is yielded before the next primary record is, and no
\* area record is yielded before the primary record it was staged at.
C15_BufferDrainedBetween ==
    TwoPass =>
        /\ \A a, x, y \in Records :
              DueBefore(a, x, y) =>
                  (InSeq(a, yielded) /\ IndexOf(a, yielded) < IndexOf(y, yielded))
        /\ AreasAfterTheirRecord

\* C15 (amended): the same of every such area record that the filters accept;
\* an area record the filters veto leaves the buffer in the same drain and is
\* not yielded.
C15_AcceptedDrainedBetween ==
    TwoPass =>
        /\ \A a, x, y \in Records :
              DueBefore(a, x, y) =>
                  /\ ~InSeq(a, buffer)
                  /\ IF Verdict(filters, a) = "accept"
                     THEN InSeq(a, yielded) /\ IndexOf(a, yielded) < IndexOf(y, yielded)
                     ELSE ~InSeq(a, yielded)
        /\ AreasAfterTheirRecord

\* C15 witness: a way, then its area, then the next primary record were yielded.
C15_Witness ==
    /\ TwoPass
    /\ Len(yielded) >= 3
    /\ yielded[1].t = "w"
    /\ yielded[2] = AreaOf(yielded[1])
    /\ yielded[3].t # "a"

====
